---- MODULE Spec2Model ----
\* Model of smart_elevator_testCode.cpp: a Building owning a request queue
\* (mutex + condition variable + acceptingRequests flag), a pool of Elevator
\* worker threads, a request generator thread and the main thread.
\*
\* A lock_guard / unique_lock scope is one action (nothing else can touch the
\* queue or the flag while the mutex is held); the notify that follows the
\* unlock is a separate action, as in the code.
EXTENDS Integers, Sequences, FiniteSets, TLC

NumElevators == 2   \* main(): const int numElevators
MaxFloor == 2       \* floors are 1..MaxFloor (main(): numFloors)
MaxRequests == 2    \* how many requests the generator thread may submit
MoveFloors == 7     \* floors of the building in which moveTo is run alone

Elevators == 0 .. (NumElevators - 1)
Floors == 1 .. MaxFloor
Nullopt == [sourceFloor |-> 0, destFloor |-> 0, timestamp |-> 0]

VARIABLES
    requestQ,           \* Building::requestQ, head first
    acceptingRequests,  \* Building::acceptingRequests
    running,            \* Elevator::running, per elevator
    thr,                \* Elevator::thr: "empty", "joinable" or "joined"
    currentFloor,       \* Elevator::currentFloor, per elevator
    pc,                 \* where each elevator thread is in Elevator::run
    req,                \* the local `req` of Elevator::run, per elevator
    mainPc,             \* where the main thread is; "aborted" after
                        \* std::terminate
    mainIdx,            \* the loop index of startElevators / waitForElevators
    genPc,              \* where the generator thread is
    submitted,          \* number of addRequest calls so far (steady_clock)
    claimed,            \* timestamps in the order waitForRequest returned them
    completed,          \* number of "Request time" log lines per timestamp
    queuedAtClose,      \* timestamps queued when the flag first became false
    late                \* timestamps pushed while the flag was already false

vars == <<requestQ, acceptingRequests, running, thr, currentFloor, pc, req,
          mainPc, mainIdx, genPc, submitted, claimed,
          completed, queuedAtClose, late>>

building == <<requestQ, acceptingRequests>>
elevatorLocals == <<currentFloor, req>>
history == <<claimed, completed, queuedAtClose, late>>

Init ==
    /\ requestQ = <<>>
    /\ acceptingRequests = TRUE
    /\ running = [e \in Elevators |-> TRUE]
    /\ thr = [e \in Elevators |-> "empty"]
    /\ currentFloor = [e \in Elevators |-> 1]
    /\ pc = [e \in Elevators |-> "unstarted"]
    /\ req = [e \in Elevators |-> Nullopt]
    /\ mainPc = "startElevators"
    /\ mainIdx = 0
    /\ genPc = "unspawned"
    /\ submitted = 0
    /\ claimed = <<>>
    /\ completed = [t \in 1 .. MaxRequests |-> 0]
    /\ queuedAtClose = {}
    /\ late = {}

----
\* Condition variable Building::cv

\* the threads blocked inside cv.wait
cvWaiters == {e \in Elevators : pc[e] = "blocked"}

\* a predicate that forgets the shutdown flag
WaitPredicateNoFlag == requestQ # <<>>

\* the predicate of cv.wait in waitForRequest
WaitPredicate == requestQ # <<>> \/ ~acceptingRequests

\* a notification that wakes nobody
NotifyOneLost == pc' = pc

\* cv.notify_one(): wakes one blocked thread, if there is one; the woken thread
\* goes back to re-acquire the mutex and re-evaluate the predicate
NotifyOne ==
    IF cvWaiters = {}
    THEN pc' = pc
    ELSE \E e \in cvWaiters : pc' = [pc EXCEPT ![e] = "woken"]

\* notify_one() written where notify_all() belongs
NotifyAllWakesOne ==
    IF cvWaiters = {}
    THEN pc' = pc
    ELSE \E e \in cvWaiters : pc' = [pc EXCEPT ![e] = "woken"]

\* cv.notify_all(): wakes every blocked thread
NotifyAll ==
    pc' = [e \in Elevators |-> IF pc[e] = "blocked" THEN "woken" ELSE pc[e]]

\* the flag toggled instead of cleared
CloseFlagToggle ==
    /\ acceptingRequests' = ~acceptingRequests
    /\ queuedAtClose' = IF acceptingRequests
                        THEN {requestQ[i].timestamp : i \in 1 .. Len(requestQ)}
                        ELSE queuedAtClose

\* the critical section of stopAcceptingRequests
CloseFlag ==
    /\ acceptingRequests' = FALSE
    /\ queuedAtClose' = IF acceptingRequests
                        THEN {requestQ[i].timestamp : i \in 1 .. Len(requestQ)}
                        ELSE queuedAtClose

----
\* Building::addRequest, called by the generator thread

\* lines 80-83: push under the mutex
AddRequest ==
    /\ genPc = "idle"
    /\ submitted < MaxRequests
    /\ \E s \in Floors, d \in Floors :
          /\ d # s
          /\ requestQ' = Append(requestQ, [sourceFloor |-> s, destFloor |-> d,
                                            timestamp |-> submitted + 1])
    /\ submitted' = submitted + 1
    /\ late' = IF acceptingRequests THEN late ELSE late \cup {submitted + 1}
    /\ genPc' = "notifyOne"
    /\ UNCHANGED <<acceptingRequests, running, thr, elevatorLocals, pc, mainPc,
                   mainIdx, claimed, completed, queuedAtClose>>

\* line 84: cv.notify_one() after the unlock
AddRequestNotify ==
    /\ genPc = "notifyOne"
    /\ NotifyOne
    /\ genPc' = "idle"
    /\ UNCHANGED <<building, running, thr, elevatorLocals, mainPc, mainIdx,
                   submitted, history>>

\* requestGenerator line 172 -> stopAcceptingRequests lines 88-91
GenStopAccepting ==
    /\ genPc = "idle"
    /\ CloseFlag
    /\ genPc' = "notifyAll"
    /\ UNCHANGED <<requestQ, running, thr, elevatorLocals, pc, mainPc, mainIdx,
                   submitted, claimed, completed, late>>

\* stopAcceptingRequests line 92, then the generator thread is free to go on
GenNotifyAll ==
    /\ genPc = "notifyAll"
    /\ NotifyAll
    /\ genPc' = "closed"
    /\ UNCHANGED <<building, running, thr, elevatorLocals, mainPc, mainIdx,
                   submitted, history>>

\* a client that submits after it has closed the queue
LateAddRequest ==
    /\ genPc = "closed"
    /\ submitted < MaxRequests
    /\ genPc' = "idle"
    /\ UNCHANGED <<building, running, thr, elevatorLocals, pc, mainPc, mainIdx,
                   submitted, history>>

\* requestGenerator returns
GenReturn ==
    /\ genPc = "closed"
    /\ genPc' = "done"
    /\ UNCHANGED <<building, running, thr, elevatorLocals, pc, mainPc, mainIdx,
                   submitted, history>>

----
\* Elevator threads

\* Elevator::run line 135: `while (running)`. running is a plain bool written
\* by Elevator::stop in another thread with no synchronisation: once it has
\* been written the read may see either value.
RunningValues(e) == IF running[e] THEN {TRUE} ELSE {TRUE, FALSE}

RunLoop(e) ==
    /\ pc[e] = "loop"
    /\ \E r \in RunningValues(e) :
          pc' = [pc EXCEPT ![e] = IF r THEN "wait" ELSE "done"]
    /\ UNCHANGED <<building, running, thr, elevatorLocals, mainPc, mainIdx,
                   genPc, submitted, history>>

\* shutdown checked before the queue
WaitResultShutdownFirst ==
    IF ~acceptingRequests \/ requestQ = <<>> THEN Nullopt ELSE Head(requestQ)

\* back() taken instead of front()
WaitResultBack ==
    IF requestQ # <<>> THEN requestQ[Len(requestQ)] ELSE Nullopt

\* the value waitForRequest returns once the predicate holds (lines 99-106)
WaitResult == IF requestQ # <<>> THEN Head(requestQ) ELSE Nullopt

\* the pop() left out
WaitQueueNoPop == requestQ

\* the queue after that return
WaitQueue == IF requestQ # <<>> THEN Tail(requestQ) ELSE requestQ

\* a woken thread that leaves cv.wait without looking at the predicate
WokenPredicateSkipped == TRUE

\* cv.wait(lk, pred) line 97 after a wakeup: the woken thread holds the mutex
\* again and evaluates the predicate again
WokenPredicate == WaitPredicate

\* Building::waitForRequest lines 96-106 with the mutex held: evaluate the
\* predicate of cv.wait, on entry ("wait") or after a wakeup ("woken"); block
\* if it is false, else pop the head or return nullopt
WaitForRequest(e) ==
    /\ pc[e] \in {"wait", "woken"}
    /\ IF (IF pc[e] = "woken" THEN WokenPredicate ELSE WaitPredicate)
       THEN /\ req' = [req EXCEPT ![e] = WaitResult]
            /\ requestQ' = WaitQueue
            /\ claimed' = IF WaitResult # Nullopt
                          THEN Append(claimed, WaitResult.timestamp)
                          ELSE claimed
            /\ pc' = [pc EXCEPT ![e] = "returned"]
       ELSE /\ pc' = [pc EXCEPT ![e] = "blocked"]
            /\ UNCHANGED <<req, requestQ, claimed>>
    /\ UNCHANGED <<acceptingRequests, running, thr, currentFloor, mainPc,
                   mainIdx, genPc, submitted, completed, queuedAtClose, late>>

\* a spurious wakeup of cv.wait
SpuriousWakeup(e) ==
    /\ pc[e] = "blocked"
    /\ pc' = [pc EXCEPT ![e] = "woken"]
    /\ UNCHANGED <<building, running, thr, elevatorLocals, mainPc, mainIdx,
                   genPc, submitted, history>>

\* the request dropped when stop() has been called on the elevator
CheckRequestAbandons(e) ==
    /\ pc[e] = "returned"
    /\ pc' = [pc EXCEPT ![e] =
          IF req[e] = Nullopt \/ ~running[e] THEN "done" ELSE "moveSrc"]
    /\ UNCHANGED <<building, running, thr, elevatorLocals, mainPc, mainIdx,
                   genPc, submitted, history>>

\* Elevator::run line 137: `if (!req) break;`, else process(*req) begins
CheckRequest(e) ==
    /\ pc[e] = "returned"
    /\ pc' = [pc EXCEPT ![e] = IF req[e] = Nullopt THEN "done" ELSE "moveSrc"]
    /\ UNCHANGED <<building, running, thr, elevatorLocals, mainPc, mainIdx,
                   genPc, submitted, history>>

\* an elevator that jumps to the target in one step
MoveToPathSkips(from, target) == IF from = target THEN <<>> ELSE <<target>>

\* Elevator::moveTo lines 117-121: the floors logged as "Passing floor", one
\* per iteration of the loop, starting from floor `from`
RECURSIVE MoveToPath(_, _)
MoveToPath(from, target) ==
    IF from = target
    THEN <<>>
    ELSE LET next == from + (IF target > from THEN 1 ELSE -1)
         IN  <<next>> \o MoveToPath(next, target)

\* currentFloor when moveTo(target) returns
MoveTo(from, target) ==
    LET path == MoveToPath(from, target)
    IN  IF path = <<>> THEN from ELSE path[Len(path)]

\* "Pick up at" logged without the move to the source floor
PickUpWithoutMove(e) ==
    /\ pc[e] = "moveSrc"
    /\ pc' = [pc EXCEPT ![e] = "moveDst"]
    /\ UNCHANGED <<building, running, thr, elevatorLocals, mainPc, mainIdx,
                   genPc, submitted, history>>

\* Elevator::process lines 125-126: moveTo(r.sourceFloor), "Pick up at"
PickUp(e) ==
    /\ pc[e] = "moveSrc"
    /\ currentFloor' =
          [currentFloor EXCEPT ![e] = MoveTo(@, req[e].sourceFloor)]
    /\ pc' = [pc EXCEPT ![e] = "moveDst"]
    /\ UNCHANGED <<building, running, thr, req, mainPc, mainIdx, genPc,
                   submitted, history>>

\* Elevator::process lines 127-131: moveTo(r.destFloor), "Drop off at" and
\* "Request time" are logged and process returns to the loop of run
DropOff(e) ==
    /\ pc[e] = "moveDst"
    /\ currentFloor' =
          [currentFloor EXCEPT ![e] = MoveTo(@, req[e].destFloor)]
    /\ completed' = [completed EXCEPT ![req[e].timestamp] = @ + 1]
    /\ req' = [req EXCEPT ![e] = Nullopt]
    /\ pc' = [pc EXCEPT ![e] = "loop"]
    /\ UNCHANGED <<building, running, thr, mainPc, mainIdx, genPc, submitted,
                   claimed, queuedAtClose, late>>

----
\* The main thread

\* Building::startElevators -> Elevator::start line 151, one elevator per step
StartElevator ==
    /\ mainPc = "startElevators"
    /\ thr' = [thr EXCEPT ![mainIdx] = "joinable"]
    /\ pc' = [pc EXCEPT ![mainIdx] = "loop"]
    /\ IF mainIdx + 1 < NumElevators
       THEN /\ mainIdx' = mainIdx + 1
            /\ mainPc' = mainPc
       ELSE /\ mainIdx' = 0
            /\ mainPc' = "spawnGen"
    /\ UNCHANGED <<building, running, elevatorLocals, genPc, submitted,
                   history>>

\* main line 184: the generator thread is created
SpawnGenerator ==
    /\ mainPc = "spawnGen"
    /\ genPc' = "idle"
    /\ mainPc' = "joinGen"
    /\ UNCHANGED <<building, running, thr, elevatorLocals, pc, mainIdx,
                   submitted, history>>

\* main lines 185-187: gen.join() has returned and waitForElevators is called
JoinGenerator ==
    /\ mainPc = "joinGen"
    /\ genPc = "done"
    /\ mainPc' = "stopRunning"
    /\ UNCHANGED <<building, running, thr, elevatorLocals, pc, mainIdx, genPc,
                   submitted, history>>

\* a client that calls waitForElevators while the generator is still running
EarlyWaitForElevators ==
    /\ mainPc = "joinGen"
    /\ genPc # "done"
    /\ mainPc' = "stopRunning"
    /\ UNCHANGED <<building, running, thr, elevatorLocals, pc, mainIdx, genPc,
                   submitted, history>>

\* Elevator::stop line 155
StopRunning ==
    /\ mainPc = "stopRunning"
    /\ running' = [running EXCEPT ![mainIdx] = FALSE]
    /\ mainPc' = "stopAccepting"
    /\ UNCHANGED <<building, thr, elevatorLocals, pc, mainIdx, genPc,
                   submitted, history>>

\* Elevator::stop line 156 -> stopAcceptingRequests lines 88-91
StopAccepting ==
    /\ mainPc = "stopAccepting"
    /\ CloseFlag
    /\ mainPc' = "stopNotify"
    /\ UNCHANGED <<requestQ, running, thr, elevatorLocals, pc, mainIdx, genPc,
                   submitted, claimed, completed, late>>

\* stopAcceptingRequests line 92
StopNotifyAll ==
    /\ mainPc = "stopNotify"
    /\ NotifyAll
    /\ mainPc' = "stopJoin"
    /\ UNCHANGED <<building, running, thr, elevatorLocals, mainIdx, genPc,
                   submitted, history>>

\* Elevator::stop lines 157-159: join the thread, then the next elevator of
\* waitForElevators, or return to main
StopJoin ==
    /\ mainPc = "stopJoin"
    /\ thr[mainIdx] = "joinable" => pc[mainIdx] = "done"
    /\ thr' = [thr EXCEPT ![mainIdx] = IF @ = "joinable" THEN "joined" ELSE @]
    /\ IF mainIdx + 1 < NumElevators
       THEN /\ mainIdx' = mainIdx + 1
            /\ mainPc' = "stopRunning"
       ELSE /\ mainIdx' = mainIdx
            /\ mainPc' = "completed"
    /\ UNCHANGED <<building, running, elevatorLocals, pc, genPc, submitted,
                   history>>

----
ElevatorStep(e) ==
    \/ RunLoop(e)
    \/ WaitForRequest(e)
    \/ SpuriousWakeup(e)
    \/ CheckRequest(e)
    \/ PickUp(e)
    \/ DropOff(e)

\* requestGenerator: some number of addRequest calls, then
\* stopAcceptingRequests, then return
GeneratorStep ==
    \/ AddRequest
    \/ AddRequestNotify
    \/ GenStopAccepting
    \/ GenNotifyAll
    \/ GenReturn

\* main: startElevators, the generator thread, its join, waitForElevators
MainStep ==
    \/ StartElevator
    \/ SpawnGenerator
    \/ JoinGenerator
    \/ StopRunning
    \/ StopAccepting
    \/ StopNotifyAll
    \/ StopJoin

\* the program as main() runs it
Next ==
    \/ \E e \in Elevators : ElevatorStep(e)
    \/ GeneratorStep
    \/ MainStep

Spec == Init /\ [][Next]_vars

\* the Building driven by any client: submits after the close and
\* waitForElevators at any moment are possible too
ApiNext ==
    \/ Next
    \/ LateAddRequest
    \/ EarlyWaitForElevators

ApiSpec == Init /\ [][ApiNext]_vars

\* Scheduling: a thread that can take its next step eventually takes it. How
\* many requests the generator submits before it closes the queue
\* (AddRequest, GenStopAccepting) and spurious wakeups are not guaranteed.
ElevatorProgress(e) ==
    \/ RunLoop(e)
    \/ WaitForRequest(e)
    \/ CheckRequest(e)
    \/ PickUp(e)
    \/ DropOff(e)

GeneratorProgress ==
    \/ AddRequestNotify
    \/ GenNotifyAll
    \/ GenReturn

MainProgress ==
    \/ StartElevator
    \/ SpawnGenerator
    \/ JoinGenerator
    \/ StopRunning
    \/ StopAccepting
    \/ StopNotifyAll
    \/ StopJoin

Fairness ==
    /\ \A e \in Elevators : WF_vars(ElevatorProgress(e))
    /\ WF_vars(GeneratorProgress)
    /\ WF_vars(MainProgress)

FairSpec == Init /\ [][Next]_vars /\ Fairness

\* The same scheduling for a client that need not go on to waitForElevators
\* once the generator has returned: calls in progress complete, and nothing
\* else is required of the main thread.
CallsInProgress ==
    \/ StartElevator
    \/ SpawnGenerator
    \/ StopRunning
    \/ StopAccepting
    \/ StopNotifyAll
    \/ StopJoin

QueueFairness ==
    /\ \A e \in Elevators : WF_vars(ElevatorProgress(e))
    /\ WF_vars(GeneratorProgress)
    /\ WF_vars(CallsInProgress)

QueueFairSpec == Init /\ [][Next]_vars /\ QueueFairness

\* A client that calls startElevators a second time, while the threads of
\* the first call run or after waitForElevators has joined them
SecondStartElevators ==
    /\ mainPc \in {"joinGen", "completed"}
    /\ mainPc' = "restartElevators"
    /\ mainIdx' = 0
    /\ UNCHANGED <<building, running, thr, elevatorLocals, pc, genPc,
                   submitted, history>>

\* Elevator::start line 151 on an elevator started before: move-assigning to
\* a std::thread that is still joinable calls std::terminate, which ends the
\* process and every thread of it; on a joined one the new thread is created
\* after running was set to false, finds `while (running)` false and leaves
\* run() at once.
RestartElevator ==
    /\ mainPc = "restartElevators"
    /\ IF thr[mainIdx] = "joinable"
       THEN /\ mainPc' = "aborted"
            /\ pc' = [e \in Elevators |-> "aborted"]
            /\ genPc' = "aborted"
            /\ UNCHANGED <<thr, mainIdx>>
       ELSE /\ thr' = [thr EXCEPT ![mainIdx] = "joinable"]
            /\ pc' = [pc EXCEPT ![mainIdx] = IF running[mainIdx]
                                             THEN "loop"
                                             ELSE "done"]
            /\ IF mainIdx + 1 < NumElevators
               THEN /\ mainIdx' = mainIdx + 1
                    /\ mainPc' = mainPc
               ELSE /\ mainIdx' = 0
                    /\ mainPc' = "completed"
            /\ genPc' = genPc
    /\ UNCHANGED <<building, running, elevatorLocals, submitted, history>>

\* A client that calls waitForElevators again after it has returned
SecondWaitForElevators ==
    /\ mainPc = "completed"
    /\ mainPc' = "stopRunning"
    /\ mainIdx' = 0
    /\ UNCHANGED <<building, running, thr, elevatorLocals, pc, genPc,
                   submitted, history>>

\* the program and a client repeating the two calls
LifecycleNext ==
    \/ Next
    \/ SecondStartElevators
    \/ RestartElevator
    \/ SecondWaitForElevators

LifecycleSpec == Init /\ [][LifecycleNext]_vars

\* Elevator::process run alone in a building of MoveFloors floors: elevator 0
\* stands at any floor after its first request and has just dequeued the
\* second one, with any source and destination; nothing else runs.
MoveInit ==
    /\ requestQ = <<>>
    /\ acceptingRequests = TRUE
    /\ running = [e \in Elevators |-> TRUE]
    /\ thr = [e \in Elevators |-> "joinable"]
    /\ \E c \in 1 .. MoveFloors :
          currentFloor = [e \in Elevators |-> IF e = 0 THEN c ELSE 1]
    /\ pc = [e \in Elevators |-> IF e = 0 THEN "moveSrc" ELSE "blocked"]
    /\ \E s \in 1 .. MoveFloors : \E d \in (1 .. MoveFloors) \ {s} :
          req = [e \in Elevators |->
                   IF e = 0
                   THEN [sourceFloor |-> s, destFloor |-> d, timestamp |-> 2]
                   ELSE Nullopt]
    /\ mainPc = "joinGen"
    /\ mainIdx = 0
    /\ genPc = "idle"
    /\ submitted = 2
    /\ claimed = <<1, 2>>
    /\ completed = [t \in 1 .. MaxRequests |-> IF t = 1 THEN 1 ELSE 0]
    /\ queuedAtClose = {}
    /\ late = {}

MoveNext == \E e \in Elevators : PickUp(e) \/ DropOff(e)

MoveSpec == MoveInit /\ [][MoveNext]_vars

\* waitForElevators called at any moment, and only the elevator threads
\* scheduled fairly: main may stay between two calls of Elevator::stop and
\* the generator between two calls of addRequest for ever.
EarlyStopNext == Next \/ EarlyWaitForElevators

WorkerFairSpec ==
    /\ Init
    /\ [][EarlyStopNext]_vars
    /\ \A e \in Elevators : WF_vars(ElevatorProgress(e))

----
\* Properties

AllTerminated == \A e \in Elevators : pc[e] = "done"

QueuedTimestamps == {requestQ[i].timestamp : i \in 1 .. Len(requestQ)}

ClaimedTimestamps == {claimed[i] : i \in 1 .. Len(claimed)}

\* C1: every request that was queued when the queue was closed has been
\* processed to its "Request time" line once the last elevator thread has
\* terminated, and the queue is empty when waitForElevators has returned.
C1_DrainBeforeTerminate ==
    /\ AllTerminated => \A t \in queuedAtClose : completed[t] = 1
    /\ mainPc = "completed" => requestQ = <<>>

\* C2: when the requests were submitted before the close and waitForElevators
\* has returned, each submitted request has exactly one "Request time" line;
\* no request ever has more than one.
C2_NoLossNoDuplication ==
    /\ \A t \in 1 .. MaxRequests : completed[t] <= 1
    /\ mainPc = "completed" => \A t \in 1 .. submitted : completed[t] = 1

\* C3: no request is returned by waitForRequest more than once, and no two
\* elevators hold the same request.
C3_ClaimedAtMostOnce ==
    /\ \A i, j \in 1 .. Len(claimed) : i # j => claimed[i] # claimed[j]
    /\ \A e, f \in Elevators :
          (e # f /\ req[e] # Nullopt) => req[e] # req[f]

C3_Witness ==
    /\ Len(claimed) = 2
    /\ \A e \in Elevators : req[e] # Nullopt /\ pc[e] = "moveSrc"

\* C4: a request pushed by addRequest after the queue was closed is never in
\* the queue and is never returned by waitForRequest.
C4_LateSubmitRejected ==
    \A t \in late : t \notin QueuedTimestamps /\ t \notin ClaimedTimestamps

\* C5: an elevator thread leaves Elevator::run only right after its
\* waitForRequest call returned nullopt.
C5_ExitOnlyOnShutdown ==
    [][\A e \in Elevators :
          (pc[e] # "done" /\ pc'[e] = "done")
             => (pc[e] = "returned" /\ req[e] = Nullopt)]_vars

\* C6: waitForRequest returns nullopt only when the queue is empty and
\* acceptingRequests is false; when it returns with the queue non-empty it
\* removes and returns the head, whatever the flag.
C6_NonEmptyWins ==
    [][\A e \in Elevators :
          (pc[e] \in {"wait", "woken"} /\ pc'[e] = "returned")
             => IF requestQ # <<>>
                THEN /\ req'[e] = Head(requestQ)
                     /\ requestQ' = Tail(requestQ)
                ELSE /\ req'[e] = Nullopt
                     /\ ~acceptingRequests
                     /\ requestQ' = requestQ]_vars

C6_Witness ==
    \E e \in Elevators :
        /\ pc[e] = "returned"
        /\ req[e] # Nullopt
        /\ req[e].timestamp \in queuedAtClose
        /\ requestQ # <<>>

\* C7: requests are returned by waitForRequest in the order addRequest pushed
\* them, whichever elevators claim them.
C7_FifoDelivery ==
    \A i, j \in 1 .. Len(claimed) : i < j => claimed[i] < claimed[j]

C7_Witness ==
    /\ claimed = <<1, 2>>
    /\ req[1].timestamp = 1
    /\ req[0].timestamp = 2

\* C8: once waitForElevators has been called it eventually returns, with every
\* elevator thread terminated.
C8_Termination ==
    (mainPc = "stopRunning" /\ mainIdx = 0)
        ~> (mainPc = "completed" /\ AllTerminated)

C8_Witness ==
    /\ mainPc = "completed"
    /\ AllTerminated
    /\ genPc = "done"
    /\ submitted = MaxRequests
    /\ \A e \in Elevators : thr[e] = "joined"

\* C9: once acceptingRequests is false, every elevator that is in
\* waitForRequest, blocked or not, eventually returns from it.
C9_CloseWakesAll ==
    \A e \in Elevators :
        (~acceptingRequests /\ pc[e] \in {"wait", "blocked", "woken"})
            ~> (pc[e] = "returned")

C9_Witness ==
    /\ ~acceptingRequests
    /\ requestQ = <<>>
    /\ \E e, f \in Elevators :
          /\ pc[e] = "blocked"
          /\ pc[f] = "returned"
          /\ req[f] = Nullopt

\* C10: acceptingRequests is true initially, and once it is false it stays
\* false.
C10_FlagMonotonic ==
    /\ acceptingRequests = TRUE
    /\ [][acceptingRequests' => acceptingRequests]_vars

C10_Witness ==
    /\ ~acceptingRequests
    /\ late # {}
    /\ mainPc = "completed"

\* a step that is the critical section of a stopAcceptingRequests call
CloseStep ==
    \/ genPc = "idle" /\ genPc' = "notifyAll"
    \/ mainPc = "stopAccepting" /\ mainPc' = "stopNotify"

\* C11: a stopAcceptingRequests call made when the queue is already closed, by
\* the generator or by Elevator::stop, leaves the queue, the flag and every
\* elevator's state as they are.
C11_IdempotentClose ==
    [][(CloseStep /\ ~acceptingRequests)
          => /\ acceptingRequests' = FALSE
             /\ UNCHANGED <<requestQ, running, thr, pc, currentFloor,
                            req>>]_vars

C11_Witness ==
    /\ mainPc = "stopNotify"
    /\ mainIdx = 1
    /\ genPc = "done"
    /\ ~acceptingRequests

\* C12: a request returned by waitForRequest to an elevator is picked up and
\* then completed by that elevator, whatever happens to the flags meanwhile:
\* an elevator that holds a request only goes on to the pick-up, then to the
\* drop-off, then logs "Request time" for that request, and it always gets
\* there.
C12_DequeuedRunsToCompletion ==
    /\ [][\A e \in Elevators :
             (req[e] # Nullopt /\ pc'[e] # pc[e])
                => \/ /\ pc[e] = "returned"
                      /\ pc'[e] = "moveSrc"
                      /\ req'[e] = req[e]
                   \/ /\ pc[e] = "moveSrc"
                      /\ pc'[e] = "moveDst"
                      /\ req'[e] = req[e]
                   \/ /\ pc[e] = "moveDst"
                      /\ pc'[e] = "loop"
                      /\ completed'[req[e].timestamp] = 1]_vars
    /\ \A e \in Elevators : (req[e] # Nullopt) ~> (req[e] = Nullopt)

C12_Witness ==
    \E e \in Elevators :
        /\ pc[e] = "moveDst"
        /\ ~running[e]
        /\ ~acceptingRequests
        /\ mainPc = "stopJoin"
        /\ mainIdx = e

\* C13: no two threads can access the same variable at the same moment
\* without the mutex, one of them writing: the only unguarded variables are
\* thread-private. Elevator::stop writing running[e] while the elevator's
\* thread is about to read it would be such an access.
C13_NoUnsynchronisedSharing ==
    \A e \in Elevators :
        ~(mainPc = "stopRunning" /\ mainIdx = e /\ pc[e] = "loop")

\* an elevator inside waitForRequest with no request in hand
Idle(e) == pc[e] \in {"wait", "blocked", "woken"}

\* C14: when Elevator::stop on a started elevator has returned, the queue is
\* closed and that elevator's thread has finished; every other elevator that
\* is idle in waitForRequest at that time eventually exits.
C14_StopClosesPool ==
    /\ [](\A w \in Elevators :
            thr[w] = "joined" => (~acceptingRequests /\ pc[w] = "done"))
    /\ \A f \in Elevators :
          ((\E w \in Elevators \ {f} : thr[w] = "joined") /\ Idle(f))
             ~> (pc[f] = "done")

C14_Witness ==
    \E w, f \in Elevators :
        /\ thr[w] = "joined"
        /\ thr[f] = "joinable"
        /\ running[f]
        /\ pc[f] = "woken"
        /\ mainPc = "stopRunning"

\* C17: an elevator woken inside cv.wait leaves waitForRequest only if the
\* queue is non-empty or acceptingRequests is false at the moment it holds
\* the mutex again; woken with the queue empty and the flag true it blocks
\* again.
C17_RecheckAfterWake ==
    [][\A e \in Elevators :
          (pc[e] = "woken" /\ pc'[e] # "woken")
             => IF requestQ # <<>> \/ ~acceptingRequests
                THEN pc'[e] = "returned"
                ELSE /\ pc'[e] = "blocked"
                     /\ UNCHANGED <<requestQ, req>>]_vars

C17_Witness ==
    \E e \in Elevators :
        /\ pc[e] = "woken"
        /\ requestQ = <<>>
        /\ acceptingRequests
        /\ claimed # <<>>

\* the floor moveTo is called with, and its distance from currentFloor
MoveTarget(e) ==
    IF pc[e] = "moveSrc" THEN req[e].sourceFloor ELSE req[e].destFloor

Distance(a, b) == IF a > b THEN a - b ELSE b - a

\* C15: moveTo(target) logs one "Passing floor" per step, each one floor
\* nearer to the target than the one before, |target - start| of them, and
\* ends with currentFloor = target; it does nothing when already there. From
\* floor 1, source 3 and destination 7 give 2, 3 and then 4, 5, 6, 7.
C15_MovementCorrect ==
    [][\A e \in Elevators :
          (pc[e] \in {"moveSrc", "moveDst"} /\ pc'[e] # pc[e])
             => LET from == currentFloor[e]
                    target == MoveTarget(e)
                    path == MoveToPath(from, target)
                    dir == IF target > from THEN 1 ELSE -1
                IN  /\ Len(path) = Distance(from, target)
                    /\ \A i \in 1 .. Len(path) : path[i] = from + i * dir
                    /\ currentFloor'[e] = target
                    /\ from = target => path = <<>>
                    /\ (from = 1 /\ target = 3) => path = <<2, 3>>
                    /\ (from = 3 /\ target = 7) => path = <<4, 5, 6, 7>>]_vars

C15_Witness ==
    /\ pc[0] = "moveDst"
    /\ currentFloor[0] = 3
    /\ req[0].sourceFloor = 3
    /\ req[0].destFloor = 7

\* C16: an elevator handles a request in the order move to the source floor,
\* "Pick up" there, move to the destination floor, "Drop off" there, "Request
\* time"; it takes a request only while it holds none, keeps it unchanged
\* until the "Request time" line, and only its own steps complete it.
C16_PerWorkerOrder ==
    [][/\ \A e \in Elevators :
            /\ (req'[e] # req[e] /\ req'[e] # Nullopt)
                  => /\ req[e] = Nullopt
                     /\ pc[e] \in {"wait", "woken"}
                     /\ pc'[e] = "returned"
            /\ (pc'[e] = "moveSrc" /\ pc[e] # "moveSrc")
                  => (pc[e] = "returned" /\ req[e] # Nullopt)
            /\ (pc'[e] = "moveDst" /\ pc[e] # "moveDst")
                  => /\ pc[e] = "moveSrc"
                     /\ req'[e] = req[e]
                     /\ currentFloor'[e] = req[e].sourceFloor
            /\ (pc[e] = "moveDst" /\ pc'[e] # "moveDst")
                  => /\ pc'[e] = "loop"
                     /\ currentFloor'[e] = req[e].destFloor
                     /\ completed'[req[e].timestamp] = 1
                     /\ req'[e] = Nullopt
            /\ (req[e] # Nullopt /\ req'[e] # req[e])
                  => (pc[e] = "moveDst" /\ req'[e] = Nullopt)
       /\ \A t \in 1 .. MaxRequests :
            completed'[t] # completed[t]
               => \E e \in Elevators :
                     /\ pc[e] = "moveDst"
                     /\ pc'[e] = "loop"
                     /\ req[e].timestamp = t]_vars

C16_Witness ==
    \E e \in Elevators :
        /\ pc[e] = "moveDst"
        /\ req[e].timestamp = 2
        /\ currentFloor[e] = req[e].sourceFloor
        /\ completed[1] = 1
        /\ currentFloor[1 - e] = 1
        /\ req[1 - e] = Nullopt

\* a step of the main thread inside a repeated call: Elevator::start on an
\* elevator started before, or a step of Elevator::stop on an elevator
\* already joined
SecondCallStep ==
    \/ /\ mainPc = "restartElevators"
       /\ <<mainPc, mainIdx>>' # <<mainPc, mainIdx>>
    \/ /\ mainPc \in {"stopRunning", "stopAccepting", "stopNotify", "stopJoin"}
       /\ thr[mainIdx] = "joined"
       /\ <<mainPc, mainIdx>>' # <<mainPc, mainIdx>>

\* C18: a second startElevators or waitForElevators changes neither the
\* queue, the flag, nor any elevator's thread or state, and does not abort
\* the program.
C18_SecondCallNoOp ==
    [][SecondCallStep
          => /\ mainPc' # "aborted"
             /\ UNCHANGED <<requestQ, acceptingRequests, running, thr, pc,
                            currentFloor, req>>]_vars

\* the elevators that hold a request: dequeued, "Request time" not yet logged
Holders == {e \in Elevators : req[e] # Nullopt}

HeldTimestamps == {req[e].timestamp : e \in Holders}

CompletedTimestamps == {t \in 1 .. MaxRequests : completed[t] > 0}

\* C19: every submitted request is in exactly one place: in the queue, held
\* by one elevator, or completed (once); an elevator holds at most one
\* request, so submitted = queued + held + completed.
C19_Conservation ==
    /\ QueuedTimestamps \cap HeldTimestamps = {}
    /\ QueuedTimestamps \cap CompletedTimestamps = {}
    /\ HeldTimestamps \cap CompletedTimestamps = {}
    /\ QueuedTimestamps \cup HeldTimestamps \cup CompletedTimestamps
          = 1 .. submitted
    /\ Cardinality(QueuedTimestamps) = Len(requestQ)
    /\ Cardinality(HeldTimestamps) = Cardinality(Holders)
    /\ \A t \in 1 .. MaxRequests : completed[t] <= 1
    /\ submitted = Len(requestQ) + Cardinality(Holders)
                      + Cardinality(CompletedTimestamps)

C19_Witness ==
    /\ Len(requestQ) = 1
    /\ Cardinality(Holders) = 1
    /\ submitted = 2
    /\ \E e \in Holders : pc[e] = "moveDst"

\* C20: a request at the head of the queue while an elevator is blocked in
\* cv.wait, or woken and not yet running, is eventually dequeued by some
\* elevator: the notify_one that follows the unlock of addRequest is not
\* lost.
C20_NoLostWakeup ==
    \A t \in 1 .. MaxRequests :
        (/\ requestQ # <<>>
         /\ Head(requestQ).timestamp = t
         /\ \E e \in Elevators : pc[e] \in {"blocked", "woken"})
            ~> (t \in ClaimedTimestamps)

C20_Witness ==
    /\ requestQ # <<>>
    /\ acceptingRequests
    /\ genPc = "notifyOne"
    /\ \A e \in Elevators : pc[e] = "blocked"

====
